---- MODULE Spec2Model ----
(***************************************************************************)
(* A model of the interval-set engine of normalize_interval: Tine (one     *)
(* boundary marker), its merge algebra and ordering (src/src/tine.rs), and *)
(* TineTree, the ordered set of tines with its in-place and batch set      *)
(* operations and its interval iterator (src/src/tine_tree.rs).            *)
(*                                                                         *)
(* The domain type T is the integers.  Interval endpoints are drawn from   *)
(* the even numbers 0, 2, .. so that the odd numbers between them, and one *)
(* number below and above, serve as probe points for membership.           *)
(***************************************************************************)
EXTENDS Integers, Sequences, FiniteSets, TLC

\* Number of distinct endpoint values an interval may use.
NumVals == 3

\* Longest sequence of intervals folded into the operand of a batch operation.
MaxOther == 2

Vals == {2 * i : i \in 0 .. (NumVals - 1)}
Points == (0 - 1) .. (2 * NumVals - 1)

(***************************************************************************)
(* Bound<T> and Tine<T>.  A tine is a record: side is the variant of Tine, *)
(* incl the variant of the Bound it carries, val the value (0 when the     *)
(* bound is Infinite, which carries none).                                 *)
(***************************************************************************)
Include(v) == [incl |-> "Include", val |-> v]
Exclude(v) == [incl |-> "Exclude", val |-> v]
Infinite == [incl |-> "Infinite", val |-> 0]

Lower(b) == [side |-> "Lower", incl |-> b.incl, val |-> b.val]
Point(b) == [side |-> "Point", incl |-> b.incl, val |-> b.val]
Upper(b) == [side |-> "Upper", incl |-> b.incl, val |-> b.val]

\* Option<Tine>::None, and the outcome of a match that fell into unreachable!.
None == [side |-> "None", incl |-> "None", val |-> 0]
Unreachable == [side |-> "Unreachable", incl |-> "None", val |-> 0]

is_some(o) == o.side \notin {"None", "Unreachable"}

\* Pattern helpers: tine t is the variant `side` carrying the bound variant `incl`.
Is(t, side, incl) == t.side = side /\ t.incl = incl

Tine == {Lower(Infinite), Upper(Infinite)}
        \cup {[side |-> s, incl |-> i, val |-> v] :
                 s \in {"Lower", "Point", "Upper"}, i \in {"Include", "Exclude"}, v \in Vals}

FiniteTine == {t \in Tine : t.incl # "Infinite"}

is_lower_bound(t) == t.side = "Lower" \/ Is(t, "Point", "Exclude")

is_upper_bound(t) == t.side = "Upper" \/ Is(t, "Point", "Exclude")

is_point_include(t) == Is(t, "Point", "Include")

is_point_exclude_never(t) == FALSE

is_point_exclude(t) == Is(t, "Point", "Exclude")

\* Tine::as_ref: Option<&T> as a sequence, empty for an Infinite bound.
as_ref(t) == IF t.incl = "Infinite" THEN <<>> ELSE <<t.val>>

into_inner(t) == [incl |-> t.incl, val |-> t.val]

(***************************************************************************)
(* Tine::union, Tine::intersect, Tine::minus: the match arms in source     *)
(* order (an IF chain, since a later arm only applies when no earlier one  *)
(* matched).                                                               *)
(***************************************************************************)
\* A slip in union: two tines that leave only the value itself excluded
\* annihilate instead of leaving a puncture.
Tine_union_no_puncture(self, other) ==
    LET left  == \/ self.side = "Upper" \/ Is(self, "Point", "Exclude")
                 \/ other.side = "Upper" \/ Is(other, "Point", "Exclude")
        right == \/ self.side = "Lower" \/ Is(self, "Point", "Exclude")
                 \/ other.side = "Lower" \/ Is(other, "Point", "Exclude")
        at    == IF self.incl = "Include" \/ other.incl = "Include"
                 THEN Include(self.val)
                 ELSE IF self.incl = "Infinite" THEN Infinite ELSE Exclude(self.val)
    IN  IF left /\ right THEN None
        ELSE IF right THEN Lower(at)
        ELSE IF left THEN Upper(at)
        ELSE Point(at)

Tine_union(self, other) ==
    LET l == self.val IN
    IF      Is(self, "Lower", "Include") /\ Is(other, "Lower", "Exclude") THEN Lower(Include(l))
    ELSE IF Is(self, "Lower", "Exclude") /\ Is(other, "Lower", "Include") THEN Lower(Include(l))
    ELSE IF self.side = "Lower" /\ other.side = "Lower" THEN self

    ELSE IF Is(self, "Lower", "Include") /\ Is(other, "Point", "Include") THEN Lower(Include(l))
    ELSE IF Is(self, "Lower", "Include") /\ Is(other, "Point", "Exclude") THEN None
    ELSE IF Is(self, "Lower", "Exclude") /\ Is(other, "Point", "Include") THEN Lower(Include(l))
    ELSE IF Is(self, "Lower", "Exclude") /\ Is(other, "Point", "Exclude") THEN Point(Exclude(l))

    ELSE IF Is(self, "Lower", "Include") /\ Is(other, "Upper", "Include") THEN None
    ELSE IF Is(self, "Lower", "Include") /\ Is(other, "Upper", "Exclude") THEN None
    ELSE IF Is(self, "Lower", "Exclude") /\ Is(other, "Upper", "Include") THEN None
    ELSE IF Is(self, "Lower", "Exclude") /\ Is(other, "Upper", "Exclude") THEN Point(Exclude(l))

    ELSE IF Is(self, "Point", "Include") /\ other.side = "Lower" THEN Lower(Include(l))
    ELSE IF Is(self, "Point", "Include") /\ Is(other, "Point", "Include") THEN Point(Include(l))
    ELSE IF Is(self, "Point", "Include") /\ other.side = "Upper" THEN Upper(Include(l))
    ELSE IF Is(self, "Point", "Include") THEN None

    ELSE IF Is(self, "Point", "Exclude") /\ Is(other, "Lower", "Exclude") THEN Point(Exclude(l))
    ELSE IF Is(self, "Point", "Exclude") /\ Is(other, "Point", "Exclude") THEN Point(Exclude(l))
    ELSE IF Is(self, "Point", "Exclude") /\ Is(other, "Upper", "Exclude") THEN Point(Exclude(l))
    ELSE IF Is(self, "Point", "Exclude") THEN None

    ELSE IF Is(self, "Upper", "Include") /\ Is(other, "Lower", "Include") THEN None
    ELSE IF Is(self, "Upper", "Include") /\ Is(other, "Lower", "Exclude") THEN None
    ELSE IF Is(self, "Upper", "Exclude") /\ Is(other, "Lower", "Include") THEN None
    ELSE IF Is(self, "Upper", "Exclude") /\ Is(other, "Lower", "Exclude") THEN Point(Exclude(l))

    ELSE IF Is(self, "Upper", "Include") /\ Is(other, "Point", "Include") THEN Upper(Include(l))
    ELSE IF Is(self, "Upper", "Include") /\ Is(other, "Point", "Exclude") THEN None
    ELSE IF Is(self, "Upper", "Exclude") /\ Is(other, "Point", "Include") THEN Upper(Include(l))
    ELSE IF Is(self, "Upper", "Exclude") /\ Is(other, "Point", "Exclude") THEN Point(Exclude(l))

    ELSE IF Is(self, "Upper", "Include") /\ Is(other, "Upper", "Exclude") THEN Upper(Include(l))
    ELSE IF Is(self, "Upper", "Exclude") /\ Is(other, "Upper", "Include") THEN Upper(Include(l))
    ELSE IF self.side = "Upper" /\ other.side = "Upper" THEN self

    ELSE Unreachable

Tine_intersect(self, other) ==
    LET l == self.val IN
    IF      Is(self, "Lower", "Include") /\ Is(other, "Lower", "Exclude") THEN Lower(Exclude(l))
    ELSE IF Is(self, "Lower", "Exclude") /\ Is(other, "Lower", "Include") THEN Lower(Exclude(l))
    ELSE IF self.side = "Lower" /\ other.side = "Lower" THEN self

    ELSE IF Is(self, "Lower", "Include") /\ Is(other, "Point", "Include") THEN Point(Include(l))
    ELSE IF Is(self, "Lower", "Exclude") /\ Is(other, "Point", "Exclude") THEN Lower(Exclude(l))
    ELSE IF self.side = "Lower" /\ other.side = "Point" THEN None

    ELSE IF Is(self, "Lower", "Include") /\ Is(other, "Upper", "Include") THEN Point(Include(l))
    ELSE IF self.side = "Lower" /\ other.side = "Upper" THEN None

    ELSE IF Is(self, "Point", "Include") /\ Is(other, "Lower", "Include") THEN Point(Include(l))
    ELSE IF Is(self, "Point", "Include") /\ Is(other, "Point", "Include") THEN Point(Include(l))
    ELSE IF Is(self, "Point", "Include") /\ Is(other, "Upper", "Include") THEN Point(Include(l))
    ELSE IF Is(self, "Point", "Include") THEN None

    ELSE IF Is(self, "Point", "Exclude") /\ other.side = "Lower" THEN Lower(Exclude(l))
    ELSE IF Is(self, "Point", "Exclude") /\ Is(other, "Point", "Include") THEN None
    ELSE IF Is(self, "Point", "Exclude") /\ Is(other, "Point", "Exclude") THEN Point(Exclude(l))
    ELSE IF Is(self, "Point", "Exclude") /\ other.side = "Upper" THEN Upper(Exclude(l))

    ELSE IF Is(self, "Upper", "Include") /\ Is(other, "Lower", "Include") THEN Point(Include(l))
    ELSE IF self.side = "Upper" /\ other.side = "Lower" THEN None

    ELSE IF Is(self, "Upper", "Include") /\ Is(other, "Point", "Include") THEN Point(Include(l))
    ELSE IF Is(self, "Upper", "Exclude") /\ Is(other, "Point", "Exclude") THEN Upper(Exclude(l))
    ELSE IF self.side = "Upper" /\ other.side = "Point" THEN None

    ELSE IF Is(self, "Upper", "Include") /\ Is(other, "Upper", "Exclude") THEN Upper(Exclude(l))
    ELSE IF Is(self, "Upper", "Exclude") /\ Is(other, "Upper", "Include") THEN Upper(Exclude(l))
    ELSE IF self.side = "Upper" /\ other.side = "Upper" THEN self

    ELSE Unreachable

Tine_minus(self, other) ==
    LET l == self.val IN
    IF      Is(self, "Lower", "Include") /\ Is(other, "Lower", "Exclude") THEN Point(Include(l))
    ELSE IF self.side = "Lower" /\ other.side = "Lower" THEN None

    ELSE IF Is(self, "Lower", "Include") /\ Is(other, "Point", "Include") THEN Lower(Exclude(l))
    ELSE IF self.side = "Lower" /\ other.side = "Point" THEN None

    ELSE IF Is(self, "Lower", "Include") /\ Is(other, "Upper", "Include") THEN Lower(Exclude(l))
    ELSE IF Is(self, "Lower", "Include") /\ Is(other, "Upper", "Exclude") THEN Lower(Include(l))
    ELSE IF Is(self, "Lower", "Exclude") /\ Is(other, "Upper", "Include") THEN Lower(Exclude(l))
    ELSE IF Is(self, "Lower", "Exclude") /\ Is(other, "Upper", "Exclude") THEN Lower(Exclude(l))

    ELSE IF Is(self, "Point", "Include") /\ Is(other, "Lower", "Include") THEN None
    ELSE IF Is(self, "Point", "Include") /\ Is(other, "Point", "Include") THEN None
    ELSE IF Is(self, "Point", "Include") /\ Is(other, "Upper", "Include") THEN None
    ELSE IF Is(self, "Point", "Include") THEN Point(Include(l))

    ELSE IF Is(self, "Point", "Exclude") /\ other.side = "Lower" THEN Lower(Exclude(l))
    ELSE IF Is(self, "Point", "Exclude") /\ Is(other, "Point", "Include") THEN Point(Exclude(l))
    ELSE IF Is(self, "Point", "Exclude") /\ Is(other, "Point", "Exclude") THEN None
    ELSE IF Is(self, "Point", "Exclude") /\ other.side = "Upper" THEN Upper(Exclude(l))

    ELSE IF Is(self, "Upper", "Include") /\ Is(other, "Lower", "Include") THEN Upper(Exclude(l))
    ELSE IF Is(self, "Upper", "Include") /\ Is(other, "Lower", "Exclude") THEN Upper(Include(l))
    ELSE IF Is(self, "Upper", "Exclude") /\ Is(other, "Lower", "Include") THEN Upper(Exclude(l))
    ELSE IF Is(self, "Upper", "Exclude") /\ Is(other, "Lower", "Exclude") THEN Upper(Exclude(l))

    ELSE IF Is(self, "Upper", "Include") /\ Is(other, "Point", "Include") THEN Upper(Exclude(l))
    ELSE IF self.side = "Upper" /\ other.side = "Point" THEN None

    ELSE IF Is(self, "Upper", "Include") /\ Is(other, "Upper", "Exclude") THEN Point(Include(l))
    ELSE IF self.side = "Upper" /\ other.side = "Upper" THEN None

    ELSE Unreachable

\* A slip in invert: the side is flipped and the inclusion of the boundary is kept.
Tine_invert_keeps_inclusion(self) ==
    IF      Is(self, "Lower", "Include") THEN Upper(Include(self.val))
    ELSE IF Is(self, "Lower", "Exclude") THEN Upper(Exclude(self.val))
    ELSE IF Is(self, "Point", "Include") THEN Point(Exclude(self.val))
    ELSE IF Is(self, "Point", "Exclude") THEN Point(Include(self.val))
    ELSE IF Is(self, "Upper", "Include") THEN Lower(Include(self.val))
    ELSE IF Is(self, "Upper", "Exclude") THEN Lower(Exclude(self.val))
    ELSE Unreachable

\* Tine::invert; an Infinite tine panics ("cannot invert infinite Tine").
Tine_invert(self) ==
    IF      Is(self, "Lower", "Include") THEN Upper(Exclude(self.val))
    ELSE IF Is(self, "Lower", "Exclude") THEN Upper(Include(self.val))
    ELSE IF Is(self, "Point", "Include") THEN Point(Exclude(self.val))
    ELSE IF Is(self, "Point", "Exclude") THEN Point(Include(self.val))
    ELSE IF Is(self, "Upper", "Include") THEN Lower(Exclude(self.val))
    ELSE IF Is(self, "Upper", "Exclude") THEN Lower(Include(self.val))
    ELSE Unreachable

\* PartialOrd for Tine: "Less", "Equal", "Greater", or "unreachable".
partial_cmp_no_upper_arm(self, other) ==
    IF as_ref(self) # <<>> /\ as_ref(other) # <<>>
    THEN IF self.val < other.val THEN "Less"
         ELSE IF self.val = other.val THEN "Equal" ELSE "Greater"
    ELSE IF Is(self, "Lower", "Infinite") /\ Is(other, "Lower", "Infinite") THEN "Equal"
    ELSE IF Is(self, "Lower", "Infinite") THEN "Less"
    ELSE IF Is(self, "Upper", "Infinite") THEN "Greater"
    ELSE IF Is(other, "Upper", "Infinite") THEN "Less"
    ELSE IF Is(other, "Lower", "Infinite") THEN "Greater"
    ELSE "unreachable"

partial_cmp(self, other) ==
    IF as_ref(self) # <<>> /\ as_ref(other) # <<>>
    THEN IF self.val < other.val THEN "Less"
         ELSE IF self.val = other.val THEN "Equal" ELSE "Greater"
    ELSE IF Is(self, "Lower", "Infinite") /\ Is(other, "Lower", "Infinite") THEN "Equal"
    ELSE IF Is(self, "Upper", "Infinite") /\ Is(other, "Upper", "Infinite") THEN "Equal"
    ELSE IF Is(self, "Lower", "Infinite") THEN "Less"
    ELSE IF Is(self, "Upper", "Infinite") THEN "Greater"
    ELSE IF Is(other, "Upper", "Infinite") THEN "Less"
    ELSE IF Is(other, "Lower", "Infinite") THEN "Greater"
    ELSE "unreachable"

cmp_by_side_too(self, other) ==
    IF partial_cmp(self, other) # "Equal" \/ self = other THEN partial_cmp(self, other)
    ELSE IF self.side # other.side
         THEN IF self.side = "Lower" \/ other.side = "Upper" THEN "Less" ELSE "Greater"
    ELSE IF self.incl = "Include" THEN "Less" ELSE "Greater"

cmp(self, other) == partial_cmp(self, other)

(***************************************************************************)
(* RawInterval<T>: the canonical shapes, as records.  l and r are 0 where  *)
(* the shape carries no such value.                                        *)
(***************************************************************************)
Iv(kind, l, r) == [kind |-> kind, l |-> l, r |-> r]

Empty == Iv("Empty", 0, 0)
Full == Iv("Full", 0, 0)
\* Option<RawInterval>::None, the end of an iteration.
NoIv == Iv("None", 0, 0)

RawInterval ==
    {Empty, Full}
    \cup {Iv("Point", p, p) : p \in Vals}
    \cup {iv \in {Iv(k, l, r) : k \in {"Open", "LeftOpen", "RightOpen", "Closed"},
                                  l \in Vals, r \in Vals} : iv.l < iv.r}
    \cup {Iv(k, 0, r) : k \in {"UpTo", "To"}, r \in Vals}
    \cup {Iv(k, l, 0) : k \in {"UpFrom", "From"}, l \in Vals}

iv_is_empty(iv) == iv.kind = "Empty"

iv_is_full(iv) == iv.kind = "Full"

\* RawInterval::new(lb, ub): the canonical shape of a pair of bounds.
iv_new(lb, ub) ==
    IF lb.incl = "Infinite" /\ ub.incl = "Infinite" THEN Full
    ELSE IF lb.incl = "Infinite"
         THEN Iv(IF ub.incl = "Include" THEN "To" ELSE "UpTo", 0, ub.val)
    ELSE IF ub.incl = "Infinite"
         THEN Iv(IF lb.incl = "Include" THEN "From" ELSE "UpFrom", lb.val, 0)
    ELSE IF lb.val > ub.val THEN Empty
    ELSE IF lb.val = ub.val
         THEN IF lb.incl = "Include" /\ ub.incl = "Include"
              THEN Iv("Point", lb.val, lb.val) ELSE Empty
    ELSE IF lb.incl = "Include" /\ ub.incl = "Include" THEN Iv("Closed", lb.val, ub.val)
    ELSE IF lb.incl = "Include" THEN Iv("RightOpen", lb.val, ub.val)
    ELSE IF ub.incl = "Include" THEN Iv("LeftOpen", lb.val, ub.val)
    ELSE Iv("Open", lb.val, ub.val)

\* The lower and upper Bound of a non-empty interval.
iv_lower_bound(iv) ==
    IF iv.kind \in {"Full", "UpTo", "To"} THEN Infinite
    ELSE IF iv.kind \in {"Point", "Closed", "RightOpen", "From"} THEN Include(iv.l)
    ELSE Exclude(iv.l)

iv_upper_bound(iv) ==
    IF iv.kind \in {"Full", "UpFrom", "From"} THEN Infinite
    ELSE IF iv.kind \in {"Point", "Closed", "LeftOpen", "To"} THEN Include(iv.r)
    ELSE Exclude(iv.r)

iv_contains(iv, p) ==
    /\ iv.kind # "Empty"
    /\ LET lb == iv_lower_bound(iv)
           ub == iv_upper_bound(iv)
       IN  /\ \/ lb.incl = "Infinite"
              \/ lb.incl = "Include" /\ lb.val <= p
              \/ lb.incl = "Exclude" /\ lb.val < p
           /\ \/ ub.incl = "Infinite"
              \/ ub.incl = "Include" /\ p <= ub.val
              \/ ub.incl = "Exclude" /\ p < ub.val

\* RawInterval::intersect: the greater lower bound and the lesser upper bound
\* (an excluded bound wins over an included one at the same value).
iv_intersect(a, b) ==
    IF a.kind = "Empty" \/ b.kind = "Empty" THEN Empty
    ELSE LET la == iv_lower_bound(a)
             lo == iv_lower_bound(b)
             ua == iv_upper_bound(a)
             uo == iv_upper_bound(b)
             lb == IF la.incl = "Infinite" THEN lo
                   ELSE IF lo.incl = "Infinite" THEN la
                   ELSE IF la.val > lo.val THEN la
                   ELSE IF lo.val > la.val THEN lo
                   ELSE IF la.incl = "Exclude" THEN la ELSE lo
             ub == IF ua.incl = "Infinite" THEN uo
                   ELSE IF uo.incl = "Infinite" THEN ua
                   ELSE IF ua.val < uo.val THEN ua
                   ELSE IF uo.val < ua.val THEN uo
                   ELSE IF ua.incl = "Exclude" THEN ua ELSE uo
         IN  iv_new(lb, ub)

\* Tine::from_raw_interval: Split<Tine> as a sequence of zero, one or two tines.
from_raw_interval(interval) ==
    IF      interval.kind = "Empty"     THEN <<>>
    ELSE IF interval.kind = "Point"     THEN <<Point(Include(interval.l))>>
    ELSE IF interval.kind = "Open"      THEN <<Lower(Exclude(interval.l)), Upper(Exclude(interval.r))>>
    ELSE IF interval.kind = "LeftOpen"  THEN <<Lower(Exclude(interval.l)), Upper(Include(interval.r))>>
    ELSE IF interval.kind = "RightOpen" THEN <<Lower(Include(interval.l)), Upper(Exclude(interval.r))>>
    ELSE IF interval.kind = "Closed"    THEN <<Lower(Include(interval.l)), Upper(Include(interval.r))>>
    ELSE IF interval.kind = "UpTo"      THEN <<Lower(Infinite), Upper(Exclude(interval.r))>>
    ELSE IF interval.kind = "UpFrom"    THEN <<Lower(Exclude(interval.l)), Upper(Infinite)>>
    ELSE IF interval.kind = "To"        THEN <<Lower(Infinite), Upper(Include(interval.r))>>
    ELSE IF interval.kind = "From"      THEN <<Lower(Include(interval.l)), Upper(Infinite)>>
    ELSE                                     <<Lower(Infinite), Upper(Infinite)>>

(***************************************************************************)
(* BTreeSet<Tine>: a set of tines no two of which compare Equal, read in   *)
(* the order of cmp.                                                       *)
(***************************************************************************)
\* BTreeSet::insert: an element equal to one already present is not stored.
insert(S, x) == IF \E e \in S : cmp(e, x) = "Equal" THEN S ELSE S \cup {x}

\* BTreeSet::take: the stored element equal to x, if any (get), and the rest (rest).
take(S, x) ==
    LET m == {e \in S : cmp(e, x) = "Equal"}
    IN  [get |-> IF m = {} THEN None ELSE CHOOSE e \in m : TRUE, rest |-> S \ m]

\* BTreeSet::split_off: the elements >= x (the set itself keeps the others).
split_off(S, x) == {e \in S : cmp(e, x) # "Less"}

\* iter().next() and iter().next_back(): the least and the greatest element.
first(S) == IF S = {} THEN None ELSE CHOOSE e \in S : \A f \in S : cmp(e, f) # "Greater"

last(S) == IF S = {} THEN None ELSE CHOOSE e \in S : \A f \in S : cmp(e, f) # "Less"

RECURSIVE iter(_)
iter(S) == IF S = {} THEN <<>> ELSE LET e == first(S) IN <<e>> \o iter(S \ {e})

\* TineTree::from_raw_interval: BTreeSet::from_iter of the interval's tines.
tree_from_raw_interval(interval) ==
    LET s == from_raw_interval(interval)
    IN  IF Len(s) = 0 THEN {}
        ELSE IF Len(s) = 1 THEN {s[1]}
        ELSE insert({s[1]}, s[2])

(***************************************************************************)
(* RawIntervalIter: the tines still to be read and the two saved tines.    *)
(* A step returns the iterator after the call (it), the item (NoIv for     *)
(* None), the panic message ("none" when the call returns) and whether a   *)
(* debug_assert! of the call was false (dbg).                              *)
(***************************************************************************)
iter_intervals(S) == [tine_iter |-> iter(S), saved_lower |-> None, saved_upper |-> None]

Step(it, item, panic, dbg) == [it |-> it, item |-> item, panic |-> panic, dbg |-> dbg]

\* Iterator for RawIntervalIter: next.
next(self) ==
    LET saved == is_some(self.saved_lower)
        lower == IF saved THEN self.saved_lower
                 ELSE IF self.tine_iter = <<>> THEN None ELSE Head(self.tine_iter)
        it1 == [self EXCEPT !.saved_lower = None,
                            !.tine_iter = IF saved \/ self.tine_iter = <<>> THEN @ ELSE Tail(@)]
    IN  IF ~is_some(lower) THEN Step(it1, NoIv, "none", FALSE)
        ELSE IF is_point_include(lower)
             THEN Step(it1, Iv("Point", lower.val, lower.val), "none", FALSE)
        ELSE LET more == it1.tine_iter # <<>>
                 upper == IF more THEN Head(it1.tine_iter) ELSE it1.saved_upper
                 it2 == IF more THEN [it1 EXCEPT !.tine_iter = Tail(@)]
                        ELSE [it1 EXCEPT !.saved_upper = None]
             IN  IF ~is_some(upper)
                 THEN Step(it2, NoIv, "interval is not partial", ~is_lower_bound(lower))
                 ELSE Step(IF is_point_exclude(upper)
                           THEN [it2 EXCEPT !.saved_lower = upper] ELSE it2,
                           iv_new(into_inner(lower), into_inner(upper)),
                           "none",
                           ~is_lower_bound(lower) \/ ~is_upper_bound(upper))

\* The intervals a for loop over the iterator sees before it ends or panics.
RECURSIVE collect(_)
collect_rest(n, c) == [ivs |-> <<n.item>> \o c.ivs, panic |-> c.panic, dbg |-> n.dbg \/ c.dbg]

collect_step(n) ==
    IF n.panic # "none" \/ n.item = NoIv THEN [ivs |-> <<>>, panic |-> n.panic, dbg |-> n.dbg]
    ELSE collect_rest(n, collect(n.it))

collect(it) == collect_step(next(it))

\* DoubleEndedIterator for RawIntervalIter: next_back.
next_back(self) ==
    LET saved == is_some(self.saved_upper)
        n == Len(self.tine_iter)
        upper == IF saved THEN self.saved_upper
                 ELSE IF n = 0 THEN None ELSE self.tine_iter[n]
        it1 == [self EXCEPT !.saved_upper = None,
                            !.tine_iter = IF saved \/ n = 0 THEN @ ELSE SubSeq(@, 1, n - 1)]
    IN  IF ~is_some(upper) THEN Step(it1, NoIv, "none", FALSE)
        ELSE IF is_point_include(upper)
             THEN Step(it1, Iv("Point", upper.val, upper.val), "none", FALSE)
        ELSE LET m == Len(it1.tine_iter)
                 lower == IF m > 0 THEN it1.tine_iter[m] ELSE it1.saved_lower
                 it2 == IF m > 0 THEN [it1 EXCEPT !.tine_iter = SubSeq(@, 1, m - 1)]
                        ELSE [it1 EXCEPT !.saved_lower = None]
             IN  IF ~is_some(lower)
                 THEN Step(it2, NoIv, "interval is not partial", ~is_upper_bound(upper))
                 ELSE Step(IF is_point_exclude(lower)
                           THEN [it2 EXCEPT !.saved_lower = lower] ELSE it2,
                           iv_new(into_inner(lower), into_inner(upper)),
                           "none",
                           ~is_upper_bound(upper) \/ ~is_lower_bound(lower))

\* The intervals a loop over next_back sees before it ends or panics.
RECURSIVE collect_back(_)
collect_back_step(n) ==
    IF n.panic # "none" \/ n.item = NoIv THEN [ivs |-> <<>>, panic |-> n.panic, dbg |-> n.dbg]
    ELSE collect_rest(n, collect_back(n.it))

collect_back(it) == collect_back_step(next_back(it))

(***************************************************************************)
(* IntoIter, the owning iterator: the tines still to be read (inner) and   *)
(* the two saved tines.                                                    *)
(***************************************************************************)
into_iter(S) == [inner |-> iter(S), saved_lower |-> None, saved_upper |-> None]

\* Iterator for IntoIter: next.
IntoIter_next(self) ==
    LET saved == is_some(self.saved_lower)
        lower == IF saved THEN self.saved_lower
                 ELSE IF self.inner = <<>> THEN None ELSE Head(self.inner)
        it1 == [self EXCEPT !.saved_lower = None,
                            !.inner = IF saved \/ self.inner = <<>> THEN @ ELSE Tail(@)]
    IN  IF ~is_some(lower) THEN Step(it1, NoIv, "none", FALSE)
        ELSE IF is_point_include(lower)
             THEN Step(it1, Iv("Point", lower.val, lower.val), "none", FALSE)
        ELSE LET more == it1.inner # <<>>
                 upper == IF more THEN Head(it1.inner) ELSE it1.saved_upper
                 it2 == IF more THEN [it1 EXCEPT !.inner = Tail(@)]
                        ELSE [it1 EXCEPT !.saved_upper = None]
             IN  IF ~is_some(upper)
                 THEN Step(it2, NoIv, "interval is not partial", ~is_lower_bound(lower))
                 ELSE Step(IF is_point_exclude(upper)
                           THEN [it2 EXCEPT !.saved_lower = upper] ELSE it2,
                           iv_new(into_inner(lower), into_inner(upper)),
                           "none",
                           ~is_lower_bound(lower) \/ ~is_upper_bound(upper))

\* DoubleEndedIterator for IntoIter: next_back.
IntoIter_next_back(self) ==
    LET saved == is_some(self.saved_upper)
        n == Len(self.inner)
        upper == IF saved THEN self.saved_upper
                 ELSE IF n = 0 THEN None ELSE self.inner[n]
        it1 == [self EXCEPT !.saved_upper = None,
                            !.inner = IF saved \/ n = 0 THEN @ ELSE SubSeq(@, 1, n - 1)]
    IN  IF ~is_some(upper) THEN Step(it1, NoIv, "none", FALSE)
        ELSE IF is_point_include(upper)
             THEN Step(it1, Iv("Point", upper.val, upper.val), "none", FALSE)
        ELSE LET m == Len(it1.inner)
                 lower == IF m > 0 THEN it1.inner[m] ELSE it1.saved_lower
                 it2 == IF m > 0 THEN [it1 EXCEPT !.inner = SubSeq(@, 1, m - 1)]
                        ELSE [it1 EXCEPT !.saved_lower = None]
             IN  IF ~is_some(lower)
                 THEN Step(it2, NoIv, "interval is not partial", ~is_upper_bound(upper))
                 ELSE Step(IF is_point_exclude(lower)
                           THEN [it2 EXCEPT !.saved_lower = lower] ELSE it2,
                           iv_new(into_inner(lower), into_inner(upper)),
                           "none",
                           ~is_upper_bound(upper) \/ ~is_lower_bound(lower))

\* The intervals a loop over the owning iterator sees, from either end.
RECURSIVE collect_into(_)
collect_into_step(n) ==
    IF n.panic # "none" \/ n.item = NoIv THEN [ivs |-> <<>>, panic |-> n.panic, dbg |-> n.dbg]
    ELSE collect_rest(n, collect_into(n.it))

collect_into(it) == collect_into_step(IntoIter_next(it))

RECURSIVE collect_into_back(_)
collect_into_back_step(n) ==
    IF n.panic # "none" \/ n.item = NoIv THEN [ivs |-> <<>>, panic |-> n.panic, dbg |-> n.dbg]
    ELSE collect_rest(n, collect_into_back(n.it))

collect_into_back(it) == collect_into_back_step(IntoIter_next_back(it))

\* TineTree::contains: val is the value returned when the call returns.
RECURSIVE contains_loop(_, _)
contains_rest(n, c) == [val |-> c.val, panic |-> c.panic, dbg |-> n.dbg \/ c.dbg]

contains_step(n, point) ==
    IF n.panic # "none" \/ n.item = NoIv THEN [val |-> FALSE, panic |-> n.panic, dbg |-> n.dbg]
    ELSE IF iv_contains(n.item, point) THEN [val |-> TRUE, panic |-> "none", dbg |-> n.dbg]
    ELSE contains_rest(n, contains_loop(n.it, point))

contains_loop(it, point) == contains_step(next(it), point)

contains(S, point) == contains_loop(iter_intervals(S), point)

(***************************************************************************)
(* The splits of the tree around the tines of an interval.  Each returns   *)
(* the slots (res) and the tree the call leaves behind (t).                *)
(***************************************************************************)
exterior_split_for_point_interval(S, tine) ==
    LET rest == take(S, tine).rest
        right_side == split_off(rest, tine)
    IN  [res |-> <<last(rest \ right_side), take(S, tine).get, first(right_side)>>,
         t |-> (rest \ right_side) \cup right_side]

\* A slip in the split: the tines between lower and upper stay in the tree.
exterior_split_keeps_center(S, lower, upper) ==
    LET rest == take(take(S, lower).rest, upper).rest
        center == split_off(rest, lower)
        right_side == split_off(center, upper)
    IN  [res |-> <<last(rest \ center), take(S, lower).get,
                   take(take(S, lower).rest, upper).get, first(right_side)>>,
         t |-> rest]

exterior_split_for_proper_interval(S, lower, upper) ==
    LET rest == take(take(S, lower).rest, upper).rest
        center == split_off(rest, lower)
        right_side == split_off(center, upper)
    IN  [res |-> <<last(rest \ center), take(S, lower).get,
                   take(take(S, lower).rest, upper).get, first(right_side)>>,
         t |-> (rest \ center) \cup right_side]

interior_split_for_proper_interval(S, lower, upper) ==
    LET rest == take(take(S, lower).rest, upper).rest
        center0 == split_off(rest, lower)
        right_side == split_off(center0, upper)
    IN  [res |-> <<last(rest \ center0), first(center0 \ right_side),
                   take(S, lower).get, take(take(S, lower).rest, upper).get,
                   last(center0 \ right_side), first(right_side)>>,
         t |-> center0 \ right_side,
         dbg |-> cmp(lower, upper) # "Less"]

(***************************************************************************)
(* The in-place operations.  Each returns the tree after the call (t), the *)
(* panic message ("none" when the call returns) and whether a              *)
(* debug_assert! of the call was false (dbg).                              *)
(***************************************************************************)
Res(t, panic, dbg) == [t |-> t, panic |-> panic, dbg |-> dbg]

\* `ts[i].as_ref().map(Tine::is_lower_bound).unwrap_or(false)` and its mirror image.
lower_before(o) == is_some(o) /\ is_lower_bound(o)

\* A slip in closed_after: only an Upper tine is taken to close an interval, the
\* Point(Exclude) that closes one and reopens the next is missed.
upper_after_only_upper(o) == is_some(o) /\ o.side = "Upper"

upper_after(o) == is_some(o) /\ is_upper_bound(o)

\* `debug_assert!(merged.as_ref().map(Tine::is_lower_bound).unwrap_or(true))` is false.
not_lower(o) == is_some(o) /\ ~is_lower_bound(o)

not_upper(o) == is_some(o) /\ ~is_upper_bound(o)

insert_if(c, S, x) == IF c THEN insert(S, x) ELSE S

\* A slip in the merge: the tine of the interval replaces the tine taken from the
\* tree instead of being unified with it.
merge_union_overwrite(o, x) == x

\* `if ts[i].is_some() {ts[i].take().and_then(|t| t.union(&x))} else {Some(x)}`
merge_union(o, x) == IF is_some(o) THEN Tine_union(o, x) ELSE x

merge_intersect(o, x) == IF is_some(o) THEN Tine_intersect(o, x) ELSE x

merge_minus(o, x) == IF is_some(o) THEN Tine_minus(o, x) ELSE x

\* union_point_interval after the split and the merge: the match on
\* (open_before, closed_after).
union_point_match(t, p, open_before, closed_after) ==
    IF p = Unreachable THEN Res(t, "invalid tine union", FALSE)
    ELSE IF p = None THEN Res(t, "none", FALSE)
    ELSE IF open_before /\ closed_after THEN Res(t, "none", FALSE)
    ELSE IF open_before THEN Res(insert(t, p), "none", is_lower_bound(p))
    ELSE IF closed_after THEN Res(insert(t, p), "none", is_upper_bound(p))
    ELSE Res(insert(t, p), "none", FALSE)

union_point_split(sp, p) ==
    union_point_match(sp.t, merge_union(sp.res[2], p),
                      lower_before(sp.res[1]), upper_after(sp.res[3]))

union_point_interval(S, p) == union_point_split(exterior_split_for_point_interval(S, p), p)

\* union_proper_interval after the split and the merges: the match on
\* (open_before, merged_l, merged_u, closed_after).
union_proper_match(t, open_before, l, u, closed_after) ==
    LET dbg0 == not_lower(l) \/ not_upper(u)
    IN  IF l = Unreachable \/ u = Unreachable THEN Res(t, "invalid tine union", FALSE)
        ELSE IF open_before /\ is_some(l) /\ is_some(u) /\ closed_after
             THEN Res(insert_if(is_lower_bound(u), insert_if(is_upper_bound(l), t, l), u),
                      "none", dbg0)
        ELSE IF open_before /\ is_some(l) /\ is_some(u) /\ ~closed_after
             THEN Res(insert(insert_if(is_upper_bound(l), t, l), u),
                      "none", dbg0 \/ is_lower_bound(u))
        ELSE IF ~open_before /\ is_some(l) /\ is_some(u) /\ closed_after
             THEN Res(insert_if(is_lower_bound(u), insert(t, l), u),
                      "none", dbg0 \/ is_upper_bound(l))
        ELSE IF ~open_before /\ is_some(l) /\ is_some(u) /\ ~closed_after
             THEN Res(insert(insert(t, l), u),
                      "none", dbg0 \/ is_upper_bound(l) \/ is_lower_bound(u))
        ELSE IF open_before /\ is_some(l) /\ ~is_some(u) /\ closed_after
             THEN Res(insert_if(is_point_exclude(l), t, l), "none", dbg0)
        ELSE IF ~open_before /\ is_some(l) /\ ~is_some(u) /\ closed_after
             THEN Res(insert(t, l), "none", dbg0 \/ is_upper_bound(l))
        ELSE IF open_before /\ ~is_some(l) /\ is_some(u) /\ closed_after
             THEN Res(insert_if(is_point_exclude(u), t, u), "none", dbg0)
        ELSE IF open_before /\ ~is_some(l) /\ is_some(u) /\ ~closed_after
             THEN Res(insert(t, u), "none", dbg0 \/ is_lower_bound(u))
        ELSE IF open_before /\ ~is_some(l) /\ ~is_some(u) /\ closed_after
             THEN Res(t, "none", dbg0)
        ELSE Res(t, "invalid bounds for union interval", dbg0)

union_proper_split(sp, l, u) ==
    union_proper_match(sp.t, lower_before(sp.res[1]), merge_union(sp.res[2], l),
                       merge_union(sp.res[3], u), upper_after(sp.res[4]))

union_proper_interval(S, l, u) ==
    union_proper_split(exterior_split_for_proper_interval(S, l, u), l, u)

union_split(S, s) ==
    IF Len(s) = 0 THEN Res(S, "none", FALSE)
    ELSE IF Len(s) = 1 THEN union_point_interval(S, s[1])
    ELSE union_proper_interval(S, s[1], s[2])

union_in_place(S, interval) ==
    IF iv_is_full(interval) THEN Res(tree_from_raw_interval(Full), "none", FALSE)
    ELSE union_split(S, from_raw_interval(interval))

\* `if t.is_upper_bound() {t} else {t.invert()}` and its mirror image.
upper_or_invert(t) == IF is_upper_bound(t) THEN t ELSE Tine_invert(t)

lower_or_invert(t) == IF is_lower_bound(t) THEN t ELSE Tine_invert(t)

\* BTreeSet::insert of a tine that an invert may have failed to produce.
insert_or_panic(r, x) ==
    IF r.panic # "none" THEN r
    ELSE IF x = Unreachable THEN Res(r.t, "cannot invert infinite Tine", r.dbg)
    ELSE Res(insert(r.t, x), "none", r.dbg)

\* minus_point_interval after the split and the merge.
minus_point_match(t, p, open_before, closed_after) ==
    IF p = Unreachable THEN Res(t, "invalid tine intersect", FALSE)
    ELSE IF p = None THEN Res(t, "none", FALSE)
    ELSE IF open_before /\ closed_after
         THEN insert_or_panic(Res(t, "none", FALSE), Tine_invert(p))
    ELSE IF open_before THEN Res(insert(t, p), "none", ~is_upper_bound(p))
    ELSE IF closed_after THEN Res(insert(t, p), "none", ~is_lower_bound(p))
    ELSE Res(t, "none", FALSE)

minus_point_split(sp, p) ==
    minus_point_match(sp.t, merge_minus(sp.res[2], p),
                      lower_before(sp.res[1]), upper_after(sp.res[3]))

minus_point_interval(S, p) == minus_point_split(exterior_split_for_point_interval(S, p), p)

\* `if let Some(Point(Include(p))) = t {self.0.insert(Point(Include(p)))}`
insert_point_include(r, o) == IF is_some(o) /\ is_point_include(o) THEN insert_or_panic(r, o) ELSE r

\* minus_proper_interval after the split and the merges.
minus_proper_match(t, open_before, l, u, closed_after) ==
    IF l = Unreachable \/ u = Unreachable THEN Res(t, "invalid tine intersect", FALSE)
    ELSE IF open_before /\ is_some(l) /\ is_some(u) /\ closed_after
         THEN insert_or_panic(insert_or_panic(Res(t, "none", FALSE), upper_or_invert(l)),
                              lower_or_invert(u))
    ELSE IF open_before /\ is_some(l) /\ ~closed_after
         THEN insert_point_include(
                  insert_or_panic(Res(t, "none", FALSE), upper_or_invert(l)), u)
    ELSE IF ~open_before /\ is_some(u) /\ closed_after
         THEN insert_point_include(
                  insert_or_panic(Res(t, "none", FALSE), lower_or_invert(u)), l)
    ELSE IF ~open_before /\ is_some(l) /\ is_some(u) /\ ~closed_after
         THEN Res(insert_if(is_point_include(u), insert_if(is_point_include(l), t, l), u),
                  "none", FALSE)
    ELSE IF ~open_before /\ is_some(l) /\ ~is_some(u) /\ ~closed_after
         THEN Res(insert_if(is_point_include(l), t, l), "none", FALSE)
    ELSE IF ~open_before /\ ~is_some(l) /\ is_some(u) /\ ~closed_after
         THEN Res(insert_if(is_point_include(u), t, u), "none", FALSE)
    ELSE IF ~open_before /\ ~is_some(l) /\ ~is_some(u) /\ ~closed_after
         THEN Res(t, "none", FALSE)
    ELSE Res(t, "invalid bounds for minus interval", FALSE)

minus_proper_split(sp, l, u) ==
    minus_proper_match(sp.t, lower_before(sp.res[1]), merge_minus(sp.res[2], l),
                       merge_minus(sp.res[3], u), upper_after(sp.res[4]))

minus_proper_interval(S, l, u) ==
    minus_proper_split(exterior_split_for_proper_interval(S, l, u), l, u)

minus_split(S, s) ==
    IF Len(s) = 0 THEN Res(S, "none", FALSE)
    ELSE IF Len(s) = 1 THEN minus_point_interval(S, s[1])
    ELSE minus_proper_interval(S, s[1], s[2])

minus_in_place(S, interval) ==
    IF S = {} \/ iv_is_empty(interval) THEN Res(S, "none", FALSE)
    ELSE IF iv_is_full(interval) THEN Res({}, "none", FALSE)
    ELSE minus_split(S, from_raw_interval(interval))

\* intersect_proper_interval after the split and the merges: the match on
\* (open_before, merged_l, in_l, in_r, merged_u, closed_after).
intersect_proper_match(t, dbg0, open_before, l, in_l, in_r, u, closed_after) ==
    IF l = Unreachable \/ u = Unreachable THEN Res(t, "invalid tine intersect", dbg0)
    ELSE IF is_some(l) /\ is_some(u) /\ (in_l = in_r)
         THEN Res(insert(insert(t, l), u), "none", dbg0 \/ not_lower(l) \/ not_upper(u))
    ELSE IF open_before /\ is_some(l) /\ in_l /\ ~in_r /\ ~closed_after
         THEN Res(insert(t, l), "none", dbg0 \/ not_lower(l) \/ not_upper(u))
    ELSE IF ~open_before /\ ~in_l /\ in_r /\ is_some(u) /\ closed_after
         THEN Res(insert(t, u), "none", dbg0 \/ not_lower(l) \/ not_upper(u))
    ELSE IF ~open_before /\ ~in_l /\ ~in_r /\ ~closed_after
         THEN Res(t, "none", dbg0 \/ not_lower(l) \/ not_upper(u))
    ELSE Res(t, "invalid bounds for intersection interval",
             dbg0 \/ not_lower(l) \/ not_upper(u))

intersect_proper_split(sp, l, u) ==
    intersect_proper_match(sp.t, sp.dbg, lower_before(sp.res[1]),
                           merge_intersect(sp.res[3], l), upper_after(sp.res[2]),
                           lower_before(sp.res[5]), merge_intersect(sp.res[4], u),
                           upper_after(sp.res[6]))

intersect_proper_interval(S, l, u) ==
    intersect_proper_split(interior_split_for_proper_interval(S, l, u), l, u)

\* `if self.contains(pt) {*self = from_raw_interval(..)} else {*self = new()}`
intersect_point(S, interval, c) ==
    IF c.panic # "none" THEN Res(S, c.panic, c.dbg)
    ELSE IF c.val THEN Res(tree_from_raw_interval(interval), "none", c.dbg)
    ELSE Res({}, "none", c.dbg)

intersect_split(S, s) == intersect_proper_interval(S, s[1], s[2])

intersect_in_place(S, interval) ==
    IF S = {} \/ iv_is_full(interval) THEN Res(S, "none", FALSE)
    ELSE IF iv_is_empty(interval) THEN Res({}, "none", FALSE)
    ELSE IF interval.kind = "Point" THEN intersect_point(S, interval, contains(S, interval.l))
    ELSE intersect_split(S, from_raw_interval(interval))

(***************************************************************************)
(* The batch operations: each returns a fresh tree.                        *)
(***************************************************************************)
\* The accumulated result after one more step r: a tree operation or an iterator step.
then(acc, t, r) == Res(t, r.panic, acc.dbg \/ r.dbg)

\* `for interval in other.iter_intervals() { union.union_in_place(&interval) }`
RECURSIVE union_loop(_, _)
union_body(acc, n, r) ==
    IF r.panic # "none" THEN then(acc, r.t, r) ELSE union_loop(then(acc, r.t, r), n.it)

union_step(acc, n) ==
    IF n.panic # "none" \/ n.item = NoIv THEN then(acc, acc.t, n)
    ELSE union_body(then(acc, acc.t, n), n, union_in_place(acc.t, n.item))

union_loop(acc, it) == union_step(acc, next(it))

union(self, other) == union_loop(Res(self, "none", FALSE), iter_intervals(other))

\* `for interval in other.iter_intervals() { minus.minus_in_place(&interval) }`
RECURSIVE minus_loop(_, _)
minus_body(acc, n, r) ==
    IF r.panic # "none" THEN then(acc, r.t, r) ELSE minus_loop(then(acc, r.t, r), n.it)

minus_step(acc, n) ==
    IF n.panic # "none" \/ n.item = NoIv THEN then(acc, acc.t, n)
    ELSE minus_body(then(acc, acc.t, n), n, minus_in_place(acc.t, n.item))

minus_loop(acc, it) == minus_step(acc, next(it))

minus(self, other) == minus_loop(Res(self, "none", FALSE), iter_intervals(other))

\* TineTree::intersect: the outer `while let` over self_intervals (intersect_while)
\* and the inner 'segment loop over other_intervals (intersect_segment).
RECURSIVE intersect_while(_, _, _)
RECURSIVE intersect_segment(_, _, _, _)
intersect_union(acc, self_intervals, other_intervals, self_interval, r) ==
    IF r.panic # "none" THEN then(acc, r.t, r)
    ELSE intersect_segment(then(acc, r.t, r), self_intervals, other_intervals, self_interval)

intersect_other(acc, self_intervals, self_interval, n, i) ==
    IF ~iv_is_empty(i)
    THEN intersect_union(acc, self_intervals, n.it, self_interval, union_in_place(acc.t, i))
    ELSE intersect_while(acc, self_intervals, n.it)

intersect_segment_step(acc, self_intervals, self_interval, n) ==
    IF n.panic # "none" \/ n.item = NoIv THEN then(acc, acc.t, n)
    ELSE intersect_other(then(acc, acc.t, n), self_intervals, self_interval, n,
                         iv_intersect(self_interval, n.item))

intersect_segment(acc, self_intervals, other_intervals, self_interval) ==
    intersect_segment_step(acc, self_intervals, self_interval, next(other_intervals))

intersect_while_step(acc, n, other_intervals) ==
    IF n.panic # "none" \/ n.item = NoIv THEN then(acc, acc.t, n)
    ELSE intersect_segment(then(acc, acc.t, n), n.it, other_intervals, n.item)

intersect_while(acc, self_intervals, other_intervals) ==
    intersect_while_step(acc, next(self_intervals), other_intervals)

intersect(self, other) ==
    intersect_while(Res({}, "none", FALSE), iter_intervals(self), iter_intervals(other))

\* `for tine in tine_iter { complement.0.insert(tine.clone().invert()) }`
RECURSIVE invert_all(_, _)
invert_all(r, tines) ==
    IF tines = <<>> \/ r.panic # "none" THEN r
    ELSE invert_all(insert_or_panic(r, Tine_invert(Head(tines))), Tail(tines))

\* `complement.0.insert(Lower(Infinite)); complement.0.insert(tine.clone().invert())`
insert_end(r, infinite, tine) == insert_or_panic(insert_or_panic(r, infinite), Tine_invert(tine))

complement_first(r, tine) ==
    IF tine = Lower(Infinite) THEN r ELSE insert_end(r, Lower(Infinite), tine)

complement_last(r, tine) ==
    IF tine = Upper(Infinite) THEN r ELSE insert_end(r, Upper(Infinite), tine)

complement_point(tine) ==
    insert_or_panic(insert_or_panic(Res({Lower(Infinite)}, "none", ~is_point_exclude(tine)),
                                    tine),
                    Upper(Infinite))

complement_tines(tines, n) ==
    IF n = 1 THEN complement_point(Tine_invert(tines[1]))
    ELSE invert_all(complement_last(complement_first(Res({}, "none", FALSE), tines[1]),
                                    tines[n]),
                    SubSeq(tines, 2, n - 1))

complement(self) ==
    IF self = {} THEN Res(tree_from_raw_interval(Full), "none", FALSE)
    ELSE complement_tines(iter(self), Cardinality(self))

\* TineTree::enclose: iv is the interval returned when the call returns.
enclose_point(tine) ==
    IF as_ref(tine) = <<>>
    THEN [iv |-> NoIv, panic |-> "point Tine value", dbg |-> ~is_point_include(tine)]
    ELSE [iv |-> Iv("Point", tine.val, tine.val), panic |-> "none",
          dbg |-> ~is_point_include(tine)]

enclose(self) ==
    IF self = {} THEN [iv |-> Empty, panic |-> "none", dbg |-> FALSE]
    ELSE IF Cardinality(self) = 1 THEN enclose_point(first(self))
    ELSE [iv |-> iv_new(into_inner(first(self)), into_inner(last(self))),
          panic |-> "none", dbg |-> FALSE]

\* FromIterator<RawInterval> for TineTree: union_in_place of each interval in turn.
RECURSIVE from_iter_loop(_, _)
from_iter_step(acc, r, ivs) == from_iter_loop(then(acc, r.t, r), ivs)

from_iter_loop(acc, ivs) ==
    IF ivs = <<>> \/ acc.panic # "none" THEN acc
    ELSE from_iter_step(acc, union_in_place(acc.t, Head(ivs)), Tail(ivs))

from_iter(ivs) == from_iter_loop(Res({}, "none", FALSE), ivs)

(***************************************************************************)
(* The canonical invariants of a tree, and the trees used as inputs.       *)
(***************************************************************************)
\* The tines in ascending order form a valid interval tape.
RECURSIVE TapeFrom(_, _)
TapeFrom(tines, inside) ==
    IF tines = <<>> THEN ~inside
    ELSE LET t == Head(tines)
         IN  IF      t.side = "Lower"       THEN ~inside /\ TapeFrom(Tail(tines), TRUE)
             ELSE IF t.side = "Upper"       THEN inside /\ TapeFrom(Tail(tines), FALSE)
             ELSE IF is_point_include(t)    THEN ~inside /\ TapeFrom(Tail(tines), FALSE)
             ELSE IF is_point_exclude(t)    THEN inside /\ TapeFrom(Tail(tines), TRUE)
             ELSE FALSE

ValidTape(S) == TapeFrom(iter(S), FALSE)

\* At most one tine at each coordinate.
OnePerCoordinate(S) == \A e \in S : \A f \in S : cmp(e, f) = "Equal" => e = f

\* Lower(Infinite) only as the first tine, Upper(Infinite) only as the last.
InfinitiesAtEnds(S) ==
    /\ Lower(Infinite) \in S => first(S) = Lower(Infinite)
    /\ Upper(Infinite) \in S => last(S) = Upper(Infinite)

Canonical(S) == S \subseteq Tine /\ OnePerCoordinate(S) /\ InfinitiesAtEnds(S) /\ ValidTape(S)

\* Every set of tines with at most one tine at each coordinate.
Slot == [side : {"Lower", "Point", "Upper", "None"}, incl : {"Include", "Exclude"}]

TreeOf(f, lo, hi) ==
    {[side |-> f[v].side, incl |-> f[v].incl, val |-> v] : v \in {x \in Vals : f[x].side # "None"}}
    \cup (IF lo THEN {Lower(Infinite)} ELSE {})
    \cup (IF hi THEN {Upper(Infinite)} ELSE {})

CanonTrees ==
    {S \in {TreeOf(f, lo, hi) : f \in [Vals -> Slot], lo \in BOOLEAN, hi \in BOOLEAN} :
        Canonical(S)}

\* The trees built from unions of at most MaxOther canonical RawIntervals.
OtherTrees ==
    {from_iter(ivs).t :
        ivs \in {q \in UNION {[1 .. n -> RawInterval] : n \in 0 .. MaxOther} :
                    from_iter(q).panic = "none"}}

\* What the tree holds, read off the tines without the iterator: p is in the set
\* when a tine at p includes it, or when p lies strictly between two tines and the
\* one below opens (or reopens) the set.
Member(S, p) ==
    LET at == {t \in S : t.incl # "Infinite" /\ t.val = p}
        below == {t \in S : Is(t, "Lower", "Infinite") \/ (t.incl # "Infinite" /\ t.val < p)}
    IN  IF at # {} THEN \E t \in at : t.incl = "Include"
        ELSE below # {} /\ is_lower_bound(last(below))

(***************************************************************************)
(* The state: the tree a client holds and a record of its last call.       *)
(***************************************************************************)
VARIABLES
    tree,    \* the TineTree (self), a set of tines
    pre,     \* the tree before the last call
    op,      \* the last call, "idle" when the client has moved on
    arg,     \* the RawInterval given to an in-place call
    other,   \* the tree given to a batch call
    out,     \* the tree a batch call returned
    panic,   \* the panic message of the last call, "none" if it returned
    dbg,     \* TRUE when a debug_assert! of the last call was false
    cmps,    \* three tines and the orderings Tine::cmp returned for them
    tops     \* two tines, the Tine operation called on them and what it returned

vars == <<tree, pre, op, arg, other, out, panic, dbg, cmps, tops>>

\* No Tine operation asked for.  f is the operation, r what a.f(&b) returned,
\* rr what b.f(&a) returned (for invert: a.invert().invert()), dbg whether
\* the debug_assert! of the operation was false.
NoTop == [a |-> None, b |-> None, f |-> "pending", r |-> None, rr |-> None, dbg |-> FALSE]

\* No comparison asked for.
NoCmp == [a |-> None, b |-> None, c |-> None,
          ab |-> "pending", ba |-> "pending", bc |-> "pending", ac |-> "pending"]

\* TineTree::new()
Init ==
    /\ tree = {}
    /\ pre = {}
    /\ op = "idle"
    /\ arg = Empty
    /\ other = {}
    /\ out = {}
    /\ panic = "none"
    /\ dbg = FALSE
    /\ cmps = NoCmp
    /\ tops = NoTop

\* Any tree that satisfies the canonical invariants, as the input of a call.
InitCanon ==
    /\ tree \in CanonTrees
    /\ pre = {}
    /\ op = "idle"
    /\ arg = Empty
    /\ other = {}
    /\ out = {}
    /\ panic = "none"
    /\ dbg = FALSE
    /\ cmps = NoCmp
    /\ tops = NoTop

\* Any three legal tines, as the operands of Tine::cmp.
InitCmp ==
    /\ tree = {}
    /\ pre = {}
    /\ op = "idle"
    /\ arg = Empty
    /\ other = {}
    /\ out = {}
    /\ panic = "none"
    /\ dbg = FALSE
    /\ tops = NoTop
    /\ cmps \in {[NoCmp EXCEPT !.a = x, !.b = y, !.c = z] : x \in Tine, y \in Tine, z \in Tine}

\* Any two legal tines, as the operands of a Tine operation.
InitTine ==
    /\ tree = {}
    /\ pre = {}
    /\ op = "idle"
    /\ arg = Empty
    /\ other = {}
    /\ out = {}
    /\ panic = "none"
    /\ dbg = FALSE
    /\ cmps = NoCmp
    /\ tops \in {[NoTop EXCEPT !.a = x, !.b = y] : x \in Tine, y \in Tine}

Ready == op = "idle" /\ panic = "none"

InPlace(name, r, iv) ==
    /\ Ready
    /\ pre' = tree
    /\ tree' = r.t
    /\ op' = name
    /\ arg' = iv
    /\ other' = {}
    /\ out' = {}
    /\ panic' = r.panic
    /\ dbg' = r.dbg
    /\ UNCHANGED <<cmps, tops>>

Batch(name, r, B) ==
    /\ Ready
    /\ pre' = tree
    /\ tree' = tree
    /\ op' = name
    /\ arg' = Empty
    /\ other' = B
    /\ out' = r.t
    /\ panic' = r.panic
    /\ dbg' = r.dbg
    /\ UNCHANGED <<cmps, tops>>

UnionInPlace == \E iv \in RawInterval : InPlace("union_in_place", union_in_place(tree, iv), iv)

IntersectInPlace ==
    \E iv \in RawInterval : InPlace("intersect_in_place", intersect_in_place(tree, iv), iv)

MinusInPlace == \E iv \in RawInterval : InPlace("minus_in_place", minus_in_place(tree, iv), iv)

\* A.union(&B), and A.union(&A)
Union ==
    \/ \E B \in OtherTrees : Batch("union", union(tree, B), B)
    \/ Batch("union", union(tree, tree), tree)

\* A.intersect(&B), and A.intersect(&A)
Intersect ==
    \/ \E B \in OtherTrees : Batch("intersect", intersect(tree, B), B)
    \/ Batch("intersect", intersect(tree, tree), tree)

\* A.minus(&B), and A.minus(&A)
Minus ==
    \/ \E B \in OtherTrees : Batch("minus", minus(tree, B), B)
    \/ Batch("minus", minus(tree, tree), tree)

Complement == Batch("complement", complement(tree), {})

Query(name, r) ==
    /\ Ready
    /\ op' = name
    /\ panic' = r.panic
    /\ dbg' = r.dbg
    /\ pre' = tree
    /\ UNCHANGED <<tree, arg, other, out, cmps, tops>>

Contains == \E p \in Points : Query("contains", contains(tree, p))

Enclose == Query("enclose", enclose(tree))

IterIntervals == Query("iter_intervals", collect(iter_intervals(tree)))

IterIntervalsRev == Query("iter_intervals_rev", collect_back(iter_intervals(tree)))

\* for i in tree.clone() {..} and for i in tree.clone().into_iter().rev() {..}
IntoIterate == Query("into_iter", collect_into(into_iter(tree)))

IntoIterateRev == Query("into_iter_rev", collect_into_back(into_iter(tree)))

\* a.cmp(&b), b.cmp(&a), b.cmp(&c) and a.cmp(&c)
Compare ==
    /\ cmps.a # None
    /\ cmps.ab = "pending"
    /\ cmps' = [cmps EXCEPT !.ab = cmp(cmps.a, cmps.b), !.ba = cmp(cmps.b, cmps.a),
                            !.bc = cmp(cmps.b, cmps.c), !.ac = cmp(cmps.a, cmps.c)]
    /\ UNCHANGED <<tree, pre, op, arg, other, out, panic, dbg, tops>>

\* A call of a binary Tine operation on the two tines, in both orders.
TineOp(name, r, rr) ==
    /\ tops.a # None
    /\ tops.f = "pending"
    /\ tops' = [tops EXCEPT !.f = name, !.r = r, !.rr = rr,
                            !.dbg = as_ref(tops.a) # as_ref(tops.b)]
    /\ UNCHANGED <<tree, pre, op, arg, other, out, panic, dbg, cmps>>

TineUnion == TineOp("union", Tine_union(tops.a, tops.b), Tine_union(tops.b, tops.a))

TineIntersect ==
    TineOp("intersect", Tine_intersect(tops.a, tops.b), Tine_intersect(tops.b, tops.a))

TineMinus == TineOp("minus", Tine_minus(tops.a, tops.b), Tine_minus(tops.b, tops.a))

\* a.invert() and, when that returns, a.invert().invert()
TineInvert ==
    /\ tops.a # None
    /\ tops.f = "pending"
    /\ tops' = [tops EXCEPT !.f = "invert", !.r = Tine_invert(tops.a),
                            !.rr = IF is_some(Tine_invert(tops.a))
                                   THEN Tine_invert(Tine_invert(tops.a))
                                   ELSE Tine_invert(tops.a)]
    /\ UNCHANGED <<tree, pre, op, arg, other, out, panic, dbg, cmps>>

\* The client goes on with its tree ...
Keep ==
    /\ op # "idle"
    /\ panic = "none"
    /\ tree' = tree
    /\ pre' = {}
    /\ op' = "idle"
    /\ arg' = Empty
    /\ other' = {}
    /\ out' = {}
    /\ UNCHANGED <<panic, dbg, cmps, tops>>

\* ... or with the tree a batch call returned.
Adopt ==
    /\ op \in {"union", "intersect", "minus", "complement"}
    /\ panic = "none"
    /\ tree' = out
    /\ pre' = {}
    /\ op' = "idle"
    /\ arg' = Empty
    /\ other' = {}
    /\ out' = {}
    /\ UNCHANGED <<panic, dbg, cmps, tops>>

NextUnion == UnionInPlace \/ Keep

NextInPlace == UnionInPlace \/ IntersectInPlace \/ MinusInPlace \/ Keep

NextCall == UnionInPlace \/ IntersectInPlace \/ MinusInPlace

NextComplement == UnionInPlace \/ Complement \/ Keep

NextUnionBatch == UnionInPlace \/ Union \/ Keep

NextIter == UnionInPlace \/ IterIntervals \/ Keep

NextCanonIter == IterIntervals \/ IterIntervalsRev \/ IntoIterate \/ IntoIterateRev

NextTine == TineUnion \/ TineIntersect \/ TineMinus \/ TineInvert

NextCanonAny == NextCall \/ NextCanonIter

NextBatch == UnionInPlace \/ Union \/ Intersect \/ Minus \/ Complement \/ Keep

Next ==
    \/ UnionInPlace \/ IntersectInPlace \/ MinusInPlace
    \/ Union \/ Intersect \/ Minus \/ Complement
    \/ Contains \/ Enclose \/ IterIntervals \/ IterIntervalsRev
    \/ Keep \/ Adopt

\* Any sequence of public operations from the empty tree.
Spec == Init /\ [][Next]_vars

\* Forward iteration over trees built by union_in_place.
SpecIter == Init /\ [][NextIter]_vars

\* One iteration, from either end, over any tree that satisfies the canonical invariants.
SpecCanonIter == InitCanon /\ [][NextCanonIter]_vars

\* Tine::cmp on any three legal tines.
SpecCmp == InitCmp /\ [][Compare]_vars

\* One Tine operation on any two legal tines.
SpecTine == InitTine /\ [][NextTine]_vars

\* One in-place call or one iteration on any tree that satisfies the canonical invariants.
SpecCanonAny == InitCanon /\ [][NextCanonAny]_vars

\* Trees built by union_in_place alone.
SpecUnion == Init /\ [][NextUnion]_vars

\* Any sequence of in-place operations from the empty tree.
SpecInPlace == Init /\ [][NextInPlace]_vars

\* One in-place operation on any tree that satisfies the canonical invariants.
SpecCanon == InitCanon /\ [][NextCall]_vars

\* Batch operations on trees built by union_in_place alone.
SpecBatch == Init /\ [][NextBatch]_vars

\* The batch union of trees built by union_in_place alone.
SpecUnionBatch == Init /\ [][NextUnionBatch]_vars

\* The complement of trees built by union_in_place alone.
SpecComplement == Init /\ [][NextComplement]_vars

(***************************************************************************)
(* The properties checked.                                                 *)
(***************************************************************************)
\* What the client reads from contains(p) on the tree S.
Holds(S, p) == contains(S, p).val

InPlaceOps == {"union_in_place", "intersect_in_place", "minus_in_place"}

\* The last in-place call, applied once more to the tree it left.
Again ==
    IF      op = "union_in_place"     THEN union_in_place(tree, arg)
    ELSE IF op = "intersect_in_place" THEN intersect_in_place(tree, arg)
    ELSE                                   minus_in_place(tree, arg)

\* C1: from the empty tree, after every in-place call that returns, the tines in
\* ascending order form a valid interval tape (the walk starts and ends outside,
\* Lower opens outside, Upper closes inside, Point(Include) stands outside,
\* Point(Exclude) inside; a one-element tree therefore holds a Point(Include)).
C1_InPlaceKeepsValidTape == panic = "none" => ValidTape(tree)

\* C1, the failing call: [0,2) minus the point 2 loses its upper bound.
C1_UpperBoundLost ==
    /\ op = "minus_in_place"
    /\ pre = {Lower(Include(0)), Upper(Exclude(2))}
    /\ arg = Iv("Point", 2, 2)
    /\ panic = "none"
    /\ tree = {Lower(Include(0))}

\* C2: every tree built from the empty tree by union_in_place alone is a valid
\* interval tape, with Lower(Infinite) only as the first tine and Upper(Infinite)
\* only as the last.
C2_UnionBuildsValidTape == panic = "none" /\ ValidTape(tree) /\ InfinitiesAtEnds(tree)

\* C2, its case: unions have built a punctured tree that is unbounded on both sides.
C2_PuncturedUnboundedTree ==
    /\ op = "union_in_place"
    /\ pre = {Lower(Infinite), Upper(Exclude(2))}
    /\ arg = Iv("UpFrom", 2, 0)
    /\ tree = {Lower(Infinite), Point(Exclude(2)), Upper(Infinite)}

\* C3: for a tree S that satisfies the canonical invariants and a canonical
\* interval iv, after S.union_in_place(iv) contains(p) is true exactly when S
\* contained p or iv contains p.
C3_UnionInPlaceMembership ==
    op = "union_in_place" =>
        /\ panic = "none"
        /\ \A p \in Points :
            /\ contains(tree, p).panic = "none"
            /\ Holds(tree, p) = (Holds(pre, p) \/ iv_contains(arg, p))

\* C3, its case: the point 2 fills the puncture of (0,2) u (2,4).
C3_PunctureFilled ==
    /\ op = "union_in_place"
    /\ pre = {Lower(Exclude(0)), Point(Exclude(2)), Upper(Exclude(4))}
    /\ arg = Iv("Point", 2, 2)
    /\ tree = {Lower(Exclude(0)), Upper(Exclude(4))}

\* C4: for a tree S that satisfies the canonical invariants and a canonical
\* interval iv, after S.minus_in_place(iv) contains(p) is true exactly when S
\* contained p and iv does not contain p.
C4_MinusInPlaceMembership ==
    op = "minus_in_place" =>
        /\ panic = "none"
        /\ \A p \in Points :
            /\ contains(tree, p).panic = "none"
            /\ Holds(tree, p) = (Holds(pre, p) /\ ~iv_contains(arg, p))

\* C4, the failing call: minus the point 2 fills the puncture of (0,2) u (2,4),
\* adding the point 2 to the set.
C4_PointAdded ==
    /\ op = "minus_in_place"
    /\ pre = {Lower(Exclude(0)), Point(Exclude(2)), Upper(Exclude(4))}
    /\ arg = Iv("Point", 2, 2)
    /\ panic = "none"
    /\ ~Holds(pre, 2)
    /\ Point(Include(2)) \in tree

\* C5: for a tree S that satisfies the canonical invariants and a canonical
\* interval iv, after S.intersect_in_place(iv) contains(p) is true exactly when
\* S contained p and iv contains p.
C5_IntersectInPlaceMembership ==
    op = "intersect_in_place" =>
        /\ panic = "none"
        /\ \A p \in Points :
            /\ contains(tree, p).panic = "none"
            /\ Holds(tree, p) = (Holds(pre, p) /\ iv_contains(arg, p))

\* C5, the failing call: the tree {0} intersected with the disjoint interval (2,4)
\* becomes (2,4) instead of the empty tree.
C5_DisjointIntervalKept ==
    /\ op = "intersect_in_place"
    /\ pre = {Point(Include(0))}
    /\ arg = Iv("Open", 2, 4)
    /\ panic = "none"
    /\ tree = {Lower(Exclude(2)), Upper(Exclude(4))}

\* C6: for trees A and B built from unions of canonical intervals,
\* A.intersect(&B).contains(p) is true exactly when A.contains(p) and B.contains(p).
C6_IntersectMembership ==
    op = "intersect" =>
        /\ panic = "none"
        /\ \A p \in Points :
            /\ contains(out, p).panic = "none"
            /\ Holds(out, p) = (Holds(tree, p) /\ Holds(other, p))

\* C6, the failing call: (0,4) intersected with {0} u {2} is empty; the point 2 is
\* in both operands.
C6_SharedPointDropped ==
    /\ op = "intersect"
    /\ tree = {Lower(Exclude(0)), Upper(Exclude(4))}
    /\ other = {Point(Include(0)), Point(Include(2))}
    /\ panic = "none"
    /\ Holds(tree, 2) /\ Holds(other, 2)
    /\ out = {}

\* C7: for a tree A built from unions of canonical intervals,
\* A.complement().contains(p) is true exactly when A.contains(p) is false, and
\* A.complement() satisfies the canonical invariants; the complement of the
\* empty tree is Full and the complement of Full is the empty tree.
C7_ComplementMembership ==
    op = "complement" =>
        /\ panic = "none"
        /\ Canonical(out)
        /\ \A p \in Points :
            /\ contains(out, p).panic = "none"
            /\ Holds(out, p) = ~Holds(tree, p)
        /\ tree = {} => out = tree_from_raw_interval(Full)
        /\ tree = tree_from_raw_interval(Full) => out = {}

\* C7, its case: the complement of [0,2) u (2,oo) is (-oo,0) u {2}.
C7_ComplementOfPuncturedRay ==
    /\ op = "complement"
    /\ tree = {Lower(Include(0)), Point(Exclude(2)), Upper(Infinite)}
    /\ out = {Lower(Infinite), Upper(Exclude(0)), Point(Include(2))}

\* C8: from the empty tree, no public operation called with canonical intervals,
\* in any sequence, ever panics.
C8_NoPanic == panic = "none"

\* C8, the failing call: (0,2) intersected in place with (0,4) reaches the
\* unreachable! arm of intersect_proper_interval.
C8_IntersectUnreachableArm ==
    /\ op = "intersect_in_place"
    /\ pre = {Lower(Exclude(0)), Upper(Exclude(2))}
    /\ arg = Iv("Open", 0, 4)
    /\ panic = "invalid bounds for intersection interval"

\* C9: for a tree A built from unions of canonical intervals, A.minus(&A) is the
\* empty tree.
C9_MinusSelfIsEmpty == (op = "minus" /\ other = tree) => (panic = "none" /\ out = {})

\* C9, the failing call: A = [0,2) u (2,4], and A.minus(&A) holds the point 2.
C9_PunctureSurvives ==
    /\ op = "minus"
    /\ tree = {Lower(Include(0)), Point(Exclude(2)), Upper(Include(4))}
    /\ other = tree
    /\ panic = "none"
    /\ out = {Point(Include(2))}

\* C10: each in-place mutation is idempotent: for a tree S that satisfies the
\* canonical invariants and a canonical interval iv, applying the call a second
\* time returns and leaves exactly the tines the first call left.
C10_InPlaceIdempotent ==
    (op \in InPlaceOps /\ panic = "none") => (Again.panic = "none" /\ Again.t = tree)

\* C10, the failing call: [0,2] minus the point 0 is (0,2]; minus the point 0
\* again removes the lower bound.
C10_SecondMinusDiffers ==
    /\ op = "minus_in_place"
    /\ pre = {Lower(Include(0)), Upper(Include(2))}
    /\ arg = Iv("Point", 0, 0)
    /\ panic = "none"
    /\ tree = {Lower(Exclude(0)), Upper(Include(2))}
    /\ Again.t = {Upper(Include(2))}

\* C11: the batch operations are idempotent: for a tree A built from unions of
\* canonical intervals, A.union(&A) and A.intersect(&A) both return the tines of A.
C11_BatchIdempotent ==
    (op \in {"union", "intersect"} /\ other = tree) => (panic = "none" /\ out = tree)

\* C11, the failing call: A = {0} u {2}, and A.intersect(&A) is {0}.
C11_SecondPointDropped ==
    /\ op = "intersect"
    /\ tree = {Point(Include(0)), Point(Include(2))}
    /\ other = tree
    /\ panic = "none"
    /\ out = {Point(Include(0))}

\* C12: batch union is commutative: for trees A and B built from unions of
\* canonical intervals, A.union(&B) and B.union(&A) return the same tines.
C12_UnionCommutes ==
    op = "union" => (panic = "none" /\ union(other, tree) = Res(out, "none", FALSE))

\* C12, its case: [0,2] and (0,4) differ at the shared coordinate 0 and overlap;
\* folded either way the union is [0,4).
C12_OverlapFoldedBothWays ==
    /\ op = "union"
    /\ tree = {Lower(Include(0)), Upper(Include(2))}
    /\ other = {Lower(Exclude(0)), Upper(Exclude(4))}
    /\ out = {Lower(Include(0)), Upper(Exclude(4))}
    /\ union(other, tree).t = out

\* C13: batch intersect is commutative: for trees A and B built from unions of
\* canonical intervals, A.intersect(&B) and B.intersect(&A) return the same tines.
C13_IntersectCommutes ==
    op = "intersect" =>
        /\ panic = "none"
        /\ intersect(other, tree).panic = "none"
        /\ intersect(other, tree).t = out

\* C13, the failing call: A = [0,2] u {4} and B = [2,4]: A.intersect(&B) is {2},
\* B.intersect(&A) is {2} u {4}.
C13_OrderChangesResult ==
    /\ op = "intersect"
    /\ tree = {Lower(Include(0)), Upper(Include(2)), Point(Include(4))}
    /\ other = {Lower(Include(2)), Upper(Include(4))}
    /\ panic = "none"
    /\ out = {Point(Include(2))}
    /\ intersect(other, tree).t = {Point(Include(2)), Point(Include(4))}

\* C14: De Morgan: for trees A and B built from unions of canonical intervals,
\* A.union(&B).complement() equals A.complement().intersect(&B.complement()), and
\* A.intersect(&B).complement() equals A.complement().union(&B.complement()).
C14_DeMorgan ==
    /\ op = "union" =>
        /\ panic = "none"
        /\ complement(out) = intersect(complement(tree).t, complement(other).t)
    /\ op = "intersect" =>
        /\ panic = "none"
        /\ complement(out) = union(complement(tree).t, complement(other).t)

\* C14, the failing call: A = {0}, B empty: the complement of A.union(&B) is
\* (-oo,0) u (0,oo), and A.complement().intersect(&B.complement()) is (-oo,0).
C14_ComplementHalfLost ==
    /\ op = "union"
    /\ tree = {Point(Include(0))}
    /\ other = {}
    /\ complement(out).t = {Lower(Infinite), Point(Exclude(0)), Upper(Infinite)}
    /\ intersect(complement(tree).t, complement(other).t).t = {Lower(Infinite), Upper(Exclude(0))}


(***************************************************************************)
(* Iteration.  Emitted is what a for loop over tree.iter_intervals()       *)
(* collects, EmittedBack what a loop over next_back collects.              *)
(***************************************************************************)
Emitted == collect(iter_intervals(tree))

EmittedBack == collect_back(iter_intervals(tree))

\* C15: for a tree built from unions of RawIntervals, the intervals that
\* iter_intervals emits in forward order, folded into an empty tree with
\* union_in_place (FromIterator), give back a tree equal to the original.
C15_RoundTrip ==
    op = "iter_intervals" =>
        /\ panic = "none"
        /\ from_iter(Emitted.ivs) = Res(tree, "none", FALSE)

\* C15 witness: a punctured tree with both infinite ends has been iterated
\* and the two emitted rays rebuild it.
C15_PuncturedLineRebuilt ==
    /\ op = "iter_intervals"
    /\ tree = {Lower(Infinite), Point(Exclude(2)), Upper(Infinite)}
    /\ Len(Emitted.ivs) = 2
    /\ from_iter(Emitted.ivs).t = tree


\* Two intervals emitted one after the other are apart: the first ends
\* strictly below the start of the second, or both exclude the value they
\* meet at.
Apart(i, j) ==
    /\ iv_upper_bound(i).incl # "Infinite"
    /\ iv_lower_bound(j).incl # "Infinite"
    /\ \/ iv_upper_bound(i).val < iv_lower_bound(j).val
       \/ /\ iv_upper_bound(i).val = iv_lower_bound(j).val
          /\ iv_upper_bound(i).incl = "Exclude"
          /\ iv_lower_bound(j).incl = "Exclude"

\* Non-empty intervals, strictly ascending, disjoint and not mergeable.
EmittedCanonical(ivs) ==
    /\ \A k \in 1 .. Len(ivs) : ivs[k] \in RawInterval \ {Empty}
    /\ \A k \in 1 .. (Len(ivs) - 1) : Apart(ivs[k], ivs[k + 1])

\* Every Point(Exclude) tine of S closes one emitted interval and opens the next.
PunctureShared(S, ivs) ==
    \A t \in S : is_point_exclude(t) =>
        \E k \in 1 .. (Len(ivs) - 1) :
            /\ iv_upper_bound(ivs[k]) = Exclude(t.val)
            /\ iv_lower_bound(ivs[k + 1]) = Exclude(t.val)

\* C16: after any operation, forward iter_intervals ends without a panic and
\* has emitted non-empty intervals in strictly ascending order, pairwise
\* disjoint and not mergeable, each Point(Exclude) tine being the upper bound
\* of one emitted interval and the lower bound of the next.
C16_ForwardIterationCanonical ==
    op = "iter_intervals" =>
        /\ panic = "none"
        /\ EmittedCanonical(Emitted.ivs)
        /\ PunctureShared(tree, Emitted.ivs)

\* C16 witness: minus_in_place has left a point followed by a lone upper
\* bound, and iterating that tree panics after the point.
C16_IterationPanics ==
    /\ op = "iter_intervals"
    /\ tree = {Point(Include(0)), Upper(Exclude(2))}
    /\ panic = "interval is not partial"
    /\ Emitted.ivs = <<Iv("Point", 0, 0)>>


\* rev()
RECURSIVE Reverse(_)
Reverse(s) == IF s = <<>> THEN <<>> ELSE Reverse(Tail(s)) \o <<Head(s)>>

\* C17: for every tree that satisfies the canonical invariants, repeated
\* next_back on iter_intervals, and on the owning IntoIter, ends without a
\* panic and yields the intervals of forward iteration in the opposite order.
C17_ReverseMirrorsForward ==
    /\ op = "iter_intervals_rev" =>
        /\ panic = "none"
        /\ EmittedBack.ivs = Reverse(Emitted.ivs)
    /\ op = "into_iter_rev" =>
        /\ panic = "none"
        /\ collect_into_back(into_iter(tree)).ivs = Reverse(collect_into(into_iter(tree)).ivs)

\* C17 witness: on (0,2) u (2,4) next_back emits (2,4) and then an empty
\* interval, where forward iteration emits (0,2) and (2,4).
C17_PunctureMisread ==
    /\ op = "iter_intervals_rev"
    /\ tree = {Lower(Exclude(0)), Point(Exclude(2)), Upper(Exclude(4))}
    /\ Emitted.ivs = <<Iv("Open", 0, 2), Iv("Open", 2, 4)>>
    /\ EmittedBack.ivs = <<Iv("Open", 2, 4), Empty>>
    /\ dbg


\* No two tines of S carry the same value, and S holds each infinite bound
\* at most once.
DistinctCoordinates(S) ==
    \A e \in S : \A f \in S :
        e # f =>
            /\ ~(as_ref(e) # <<>> /\ as_ref(f) # <<>> /\ e.val = f.val)
            /\ ~(as_ref(e) = <<>> /\ as_ref(f) = <<>> /\ e.side = f.side)

\* C18: in every reachable tree, and in every tree a batch operation
\* returns, at most one tine exists at each coordinate.
C18_OneTinePerCoordinate == DistinctCoordinates(tree) /\ DistinctCoordinates(out)

\* C18 witness: a batch union of two trees that hold different tines at one
\* coordinate has returned a tree of three or more tines with a tine there.
C18_SharedCoordinateMerged ==
    /\ op = "union"
    /\ panic = "none"
    /\ Cardinality(out) >= 3
    /\ \E e \in tree : \E f \in other : \E g \in out :
           /\ e # f
           /\ as_ref(e) # <<>> /\ as_ref(f) # <<>> /\ as_ref(g) # <<>>
           /\ e.val = f.val /\ g.val = e.val


\* x <= y, read from the ordering x.cmp(&y).
AtMost(o) == o \in {"Less", "Equal"}

\* C19: Tine::cmp is a total order on the legal tines: it never reaches the
\* unreachable! arm, a.cmp(b) is the reverse of b.cmp(a), it is transitive,
\* tines of one finite value are Equal whatever their side and inclusion,
\* Lower(Infinite) is strictly less and Upper(Infinite) strictly greater
\* than every other tine.
C19_CmpTotalOrder ==
    cmps.ab # "pending" =>
        /\ {cmps.ab, cmps.ba, cmps.bc, cmps.ac} \subseteq {"Less", "Equal", "Greater"}
        /\ (cmps.ab = "Less") = (cmps.ba = "Greater")
        /\ (cmps.ab = "Equal") = (cmps.ba = "Equal")
        /\ cmps.a = cmps.b => cmps.ab = "Equal"
        /\ AtMost(cmps.ab) /\ AtMost(cmps.bc) => AtMost(cmps.ac)
        /\ AtMost(cmps.ab) /\ AtMost(cmps.bc) /\ "Less" \in {cmps.ab, cmps.bc} => cmps.ac = "Less"
        /\ as_ref(cmps.a) # <<>> /\ as_ref(cmps.b) # <<>> /\ cmps.a.val = cmps.b.val
              => cmps.ab = "Equal"
        /\ cmps.a = Lower(Infinite) /\ cmps.b # Lower(Infinite) => cmps.ab = "Less"
        /\ cmps.a = Upper(Infinite) /\ cmps.b # Upper(Infinite) => cmps.ab = "Greater"

\* C19 witness: a lower bound and a point of one value compared Equal, and
\* both compared below Upper(Infinite).
C19_SameValueEqual ==
    /\ cmps.a = Lower(Exclude(2))
    /\ cmps.b = Point(Include(2))
    /\ cmps.c = Upper(Infinite)
    /\ cmps.ab = "Equal" /\ cmps.ba = "Equal"
    /\ cmps.bc = "Less" /\ cmps.ac = "Less"


\* C20: Empty and Full are identity and annihilator for the in-place
\* operations on any tree: union with Full leaves the two infinite bounds;
\* union with Empty, intersection with Full and minus Empty leave the tree
\* unchanged; intersection with Empty and minus Full leave the empty tree;
\* intersection with Point(p) leaves Point(Include(p)) if the tree contained
\* p and the empty tree otherwise.  No such call panics.
C20_IdentityAndAnnihilator ==
    /\ op = "union_in_place" /\ arg = Full =>
          panic = "none" /\ tree = {Lower(Infinite), Upper(Infinite)}
    /\ op = "union_in_place" /\ arg = Empty => panic = "none" /\ tree = pre
    /\ op = "intersect_in_place" /\ arg = Full => panic = "none" /\ tree = pre
    /\ op = "intersect_in_place" /\ arg = Empty => panic = "none" /\ tree = {}
    /\ op = "minus_in_place" /\ arg = Full => panic = "none" /\ tree = {}
    /\ op = "minus_in_place" /\ arg = Empty => panic = "none" /\ tree = pre
    /\ op = "intersect_in_place" /\ arg.kind = "Point" =>
          /\ panic = "none"
          /\ tree = IF Holds(pre, arg.l) THEN {Point(Include(arg.l))} ELSE {}

\* C20 witness: intersect_in_place(Point(2)) on the tree that an earlier
\* intersect_in_place left as a point followed by a lone upper bound panics
\* inside contains.
C20_PointIntersectPanics ==
    /\ op = "intersect_in_place"
    /\ arg = Iv("Point", 2, 2)
    /\ pre = {Point(Include(0)), Upper(Exclude(2))}
    /\ panic = "interval is not partial"


(***************************************************************************)
(* The Tine tables.  A finite tine at value v is read as the membership of *)
(* the points just left of v, of v itself and of the points just right of  *)
(* v; TineOf is the tine that reads as a given triple, None when nothing   *)
(* or everything is included.                                              *)
(***************************************************************************)
Triple(t) ==
    [left  |-> t.side = "Upper" \/ Is(t, "Point", "Exclude"),
     at    |-> t.incl = "Include",
     right |-> t.side = "Lower" \/ Is(t, "Point", "Exclude")]

TineOf(m, v) ==
    IF m.left = m.right
    THEN IF m.at = m.left THEN None
         ELSE IF m.at THEN Point(Include(v)) ELSE Point(Exclude(v))
    ELSE IF m.right
         THEN IF m.at THEN Lower(Include(v)) ELSE Lower(Exclude(v))
    ELSE IF m.at THEN Upper(Include(v)) ELSE Upper(Exclude(v))

\* The two operands are finite tines at one value.
CoLocated == tops.a.incl # "Infinite" /\ tops.b.incl # "Infinite" /\ tops.a.val = tops.b.val

\* C21: for every ordered pair of co-located finite tines (a, b),
\* a.minus(&b) is the tine whose membership triple is a's AND NOT b's, and
\* None exactly when that triple is all-excluded.
C21_MinusIsPointwise ==
    tops.f = "minus" /\ CoLocated =>
        tops.r = TineOf([left  |-> Triple(tops.a).left /\ ~Triple(tops.b).left,
                         at    |-> Triple(tops.a).at /\ ~Triple(tops.b).at,
                         right |-> Triple(tops.a).right /\ ~Triple(tops.b).right],
                        tops.a.val)

\* C21 witness: Lower(Exclude(2)).minus(&Point(Include(2))) returned None,
\* although the points just right of 2 are in the first and not in the second.
C21_OpenLowerLost ==
    /\ tops.f = "minus"
    /\ tops.a = Lower(Exclude(2))
    /\ tops.b = Point(Include(2))
    /\ tops.r = None


\* C22: for every ordered pair of co-located finite tines (a, b),
\* a.intersect(&b) is the tine whose membership triple is the pointwise AND
\* of a's and b's, None exactly when nothing is included, and
\* a.intersect(&b) equals b.intersect(&a).
C22_IntersectIsPointwise ==
    tops.f = "intersect" /\ CoLocated =>
        /\ tops.r = TineOf([left  |-> Triple(tops.a).left /\ Triple(tops.b).left,
                            at    |-> Triple(tops.a).at /\ Triple(tops.b).at,
                            right |-> Triple(tops.a).right /\ Triple(tops.b).right],
                           tops.a.val)
        /\ tops.r = tops.rr

\* C22 witness: Lower(Include(2)).intersect(&Point(Exclude(2))) returned
\* None, and the same two tines in the other order Lower(Exclude(2)).
C22_OrderMatters ==
    /\ tops.f = "intersect"
    /\ tops.a = Lower(Include(2))
    /\ tops.b = Point(Exclude(2))
    /\ tops.r = None
    /\ tops.rr = Lower(Exclude(2))


\* C23: for every ordered pair of co-located finite tines (a, b), a.union(&b)
\* is the tine whose membership triple is the pointwise OR of a's and b's,
\* None exactly when all three are included, Point(Exclude) when only the
\* value itself stays excluded, and equal to b.union(&a); the union of two
\* same-side infinite tines is that infinite tine.
C23_UnionIsPointwise ==
    tops.f = "union" =>
        /\ CoLocated =>
            /\ tops.r = TineOf([left  |-> Triple(tops.a).left \/ Triple(tops.b).left,
                                at    |-> Triple(tops.a).at \/ Triple(tops.b).at,
                                right |-> Triple(tops.a).right \/ Triple(tops.b).right],
                               tops.a.val)
            /\ tops.r = None <=>
                  /\ Triple(tops.a).left \/ Triple(tops.b).left
                  /\ Triple(tops.a).at \/ Triple(tops.b).at
                  /\ Triple(tops.a).right \/ Triple(tops.b).right
            /\ tops.r = tops.rr
        /\ tops.a = tops.b /\ tops.a.incl = "Infinite" => tops.r = tops.a

\* C23 witness: the union of two abutting open ends has left a puncture,
\* in either order.
C23_AbuttingOpenEnds ==
    /\ tops.f = "union"
    /\ tops.a = Lower(Exclude(2))
    /\ tops.b = Upper(Exclude(2))
    /\ tops.r = Point(Exclude(2))
    /\ tops.rr = Point(Exclude(2))


\* C24: for every finite tine t, t.invert() keeps the value and reads as the
\* complement of t's membership triple (Lower(Include) <-> Upper(Exclude),
\* Lower(Exclude) <-> Upper(Include), Point(Include) <-> Point(Exclude)),
\* t.invert().invert() is t, and no operation of TineTree calls invert on a
\* tine whose bound is Infinite.
C24_InvertInvolution ==
    /\ tops.f = "invert" /\ tops.a.incl # "Infinite" =>
          /\ tops.r = TineOf([left  |-> ~Triple(tops.a).left,
                              at    |-> ~Triple(tops.a).at,
                              right |-> ~Triple(tops.a).right],
                             tops.a.val)
          /\ tops.r.side = "Point" <=> tops.a.side = "Point"
          /\ tops.rr = tops.a
    /\ panic # "cannot invert infinite Tine"

\* C24 witness: minus_in_place has cut a ray down to its infinite bound alone,
\* and complement has called invert on that bound.
C24_InfiniteInverted ==
    /\ op = "complement"
    /\ tree = {Lower(Infinite)}
    /\ panic = "cannot invert infinite Tine"


\* C25: for every tree that satisfies the canonical invariants and every
\* canonical RawInterval, no debug_assert! is false in union_in_place,
\* intersect_in_place or minus_in_place (the splits included), nor in the
\* forward and backward interval iterators.
C25_DebugAssertionsHold ==
    op \in {"union_in_place", "intersect_in_place", "minus_in_place",
            "iter_intervals", "iter_intervals_rev", "into_iter", "into_iter_rev"}
        => ~dbg

\* C25 witness: intersecting the tree {0} with [0,2) merges the stored point
\* with the given lower bound into Point(Include(0)), of which
\* intersect_proper_interval asserts is_lower_bound.
C25_MergedLowerIsPoint ==
    /\ op = "intersect_in_place"
    /\ pre = {Point(Include(0))}
    /\ arg = Iv("RightOpen", 0, 2)
    /\ Tine_intersect(Point(Include(0)), Lower(Include(0))) = Point(Include(0))
    /\ ~is_lower_bound(Point(Include(0)))
    /\ dbg


\* The last call was union_in_place or minus_in_place with a proper interval,
\* one that from_raw_interval splits into two tines.
ProperCall ==
    /\ op \in {"union_in_place", "minus_in_place"}
    /\ ~iv_is_full(arg)
    /\ Len(from_raw_interval(arg)) = 2

\* The tines of S strictly below l or strictly above u, and those strictly between.
Outside(S, l, u) == {t \in S : cmp(t, l) = "Less" \/ cmp(t, u) = "Greater"}

Between(S, l, u) == {t \in S : cmp(t, l) = "Greater" /\ cmp(t, u) = "Less"}

\* C26: union_in_place and minus_in_place with a proper interval whose tines
\* are l and u leave every tine strictly below l or strictly above u exactly
\* as it was, add no tine there, and leave no tine strictly between l and u,
\* so that the only tines inserted are at the coordinates of l and u.
C26_ProperCallIsLocal ==
    ProperCall =>
        /\ Outside(tree, from_raw_interval(arg)[1], from_raw_interval(arg)[2])
              = Outside(pre, from_raw_interval(arg)[1], from_raw_interval(arg)[2])
        /\ Between(tree, from_raw_interval(arg)[1], from_raw_interval(arg)[2]) = {}

\* C26 witness: minus_in_place((0,4)) on a tree that starts at Lower(Infinite)
\* and has a puncture at 2 has dropped the puncture and kept the infinite bound.
C26_InteriorDropped ==
    /\ op = "minus_in_place"
    /\ arg = Iv("Open", 0, 4)
    /\ Lower(Infinite) \in pre /\ Lower(Infinite) \in tree
    /\ Point(Exclude(2)) \in pre
    /\ \A t \in tree : as_ref(t) # <<2>>
    /\ panic = "none"

====
